---- MODULE Spec2Model ----
(***************************************************************************)
(* Model of the hex dump library (src/src/lib.rs).                         *)
(*                                                                         *)
(* Bytes are integers 0..255 and a Vec<u8> is a sequence of them, so the   *)
(* text the library writes is the sequence of its ASCII codes.             *)
(* A u32 is kept as two 16-bit limbs [hi, lo] (value hi * 2^16 + lo),      *)
(* because the model checker's integers are 32-bit signed.                 *)
(***************************************************************************)
EXTENDS Integers, Sequences, FiniteSets, TLC

VARIABLES
    target,           \* the Vec<u8> the running (or last) call writes to
    data,             \* `data` argument of the running (or last) call
    offset,           \* `offset` argument of the running (or last) formatted call
    line_offset,      \* local `line_offset` of write_formatted_dump_to_vec
    pos,              \* bytes of `data` the chunks(16) iterator has handed out
    chunk,            \* loop variable `chunk` of the latest loop iteration
    pc,               \* "input" | "ready" | "chunks" (inside the loop) | "panicked"
    overflow_checks,  \* whether the build checks integer overflow (debug profile)
    history,          \* names of the library calls made so far, oldest first
    pre,              \* ghost: content of target when the running (or last) call began
    init,             \* ghost: content of target before the first call
    dumps             \* ghost: reference renderings of the calls so far, concatenated

vars == <<target, data, offset, line_offset, pos, chunk, pc, overflow_checks,
          history, pre, init, dumps>>

(***************************************************************************)
(* Bounds of the model.                                                    *)
(***************************************************************************)
MaxCalls == 2      \* calls made on one buffer
MaxShort == 2      \* short data lengths 0..MaxShort given to the append calls
MaxLen   == 34     \* data lengths 0..MaxLen given to the new-buffer calls
MaxSeed  == 1      \* rotations 0..MaxSeed of the byte pattern

(***************************************************************************)
(* Program constants.                                                      *)
(***************************************************************************)
ChunkSize  == 16   \* data.chunks(16)
PadTo      == 16   \* for _ in chunk.len()..16
OffsetStep == 16   \* line_offset += 16
LimbBase   == 2 ^ 16   \* a u32 is two limbs of 16 bits

Min(a, b) == IF a < b THEN a ELSE b

U32(h, l) == [hi |-> h, lo |-> l]

\* const HEX_DIGIT: &[u8; 16] = b"0123456789abcdef";  (indexed from 0 in the code)
HEX_DIGIT == <<48, 49, 50, 51, 52, 53, 54, 55, 56, 57, 97, 98, 99, 100, 101, 102>>

HexDigitAt(n) == HEX_DIGIT[n + 1]

\* Vec::pop: removes the last element, does nothing on an empty vector.
PopNever(v) == v
Pop(v) == IF Len(v) = 0 THEN v ELSE SubSeq(v, 1, Len(v) - 1)

\* One iteration of the loop of write_bare_dump_to_vec: three pushes.
PushByteSwapped(byte, t) ==
    t \o <<HexDigitAt(byte % 16), HexDigitAt(byte \div 16), 32>>
PushByte(byte, t) ==
    t \o <<HexDigitAt(byte \div 16), HexDigitAt(byte % 16), 32>>

\* The loop `for byte in data` of write_bare_dump_to_vec.
RECURSIVE PushBytes(_, _)
PushBytes(d, t) ==
    IF d = <<>> THEN t ELSE PushBytes(Tail(d), PushByte(Head(d), t))

\* write_bare_dump_to_vec(data, target): the loop, then an unconditional pop.
write_bare_dump_to_vec(d, t) == Pop(PushBytes(d, t))

\* (line_offset >> s) & 0x0f on the two limbs, s a multiple of 4 below 32.
NibbleAt(x, s) ==
    IF s < 16 THEN (x.lo \div (2 ^ s)) % 16 ELSE (x.hi \div (2 ^ (s - 16))) % 16

\* for i in 0..4 { push(HEX_DIGIT[(line_offset >> (4 * (3 - i))) & 0x0f]) }
OffsetDigitsLowFirst(x) == [j \in 1..4 |-> HexDigitAt(NibbleAt(x, 4 * (j - 1)))]
OffsetDigits(x) == [j \in 1..4 |-> HexDigitAt(NibbleAt(x, 4 * (3 - (j - 1))))]

\* for _ in chunk.len()..16 { three pushes of b' ' }
PaddingTwo(c) == [j \in 1..(2 * (IF Len(c) < PadTo THEN PadTo - Len(c) ELSE 0)) |-> 32]
Padding(c) == [j \in 1..(3 * (IF Len(c) < PadTo THEN PadTo - Len(c) ELSE 0)) |-> 32]

\* if *byte >= 0x20 && *byte <= 0x7e { byte } else { b'.' }
AsciiOfThrough7f(byte) == IF byte >= 32 /\ byte <= 127 THEN byte ELSE 46
AsciiOf(byte) == IF byte >= 32 /\ byte <= 126 THEN byte ELSE 46

Sidebar(c) == [j \in 1..Len(c) |-> AsciiOf(c[j])]

\* The body of the chunk loop up to the newline (lines 85-110).
WriteLineNoNewline(x, c, t) ==
    write_bare_dump_to_vec(c, t \o OffsetDigits(x) \o <<32>>)
        \o Padding(c) \o <<32>> \o Sidebar(c)
WriteLine(x, c, t) ==
    write_bare_dump_to_vec(c, t \o OffsetDigits(x) \o <<32>>)
        \o Padding(c) \o <<32>> \o Sidebar(c) \o <<10>>

\* line_offset += 16 : does the u32 addition overflow, and its wrapped value.
AddOverflows(x) == x.hi + ((x.lo + OffsetStep) \div LimbBase) >= LimbBase
AddWrapped(x) ==
    U32((x.hi + ((x.lo + OffsetStep) \div LimbBase)) % LimbBase,
        (x.lo + OffsetStep) % LimbBase)

\* data.chunks(16): is there a next chunk, and which one.
HasChunkInclusive(d, p) == p <= Len(d)
HasChunk(d, p) == p < Len(d)
NextChunk(d, p) == SubSeq(d, p + 1, Min(p + ChunkSize, Len(d)))

(***************************************************************************)
(* Reference rendering, written from the layout alone (no use of the       *)
(* operators above): what the dumps are compared with.                     *)
(***************************************************************************)
LowerHex(n) == IF n < 10 THEN 48 + n ELSE 87 + n

RefBare(d) ==
    [j \in 1..(IF Len(d) = 0 THEN 0 ELSE 3 * Len(d) - 1) |->
        IF j % 3 = 0 THEN 32
        ELSE IF j % 3 = 1 THEN LowerHex(d[(j + 2) \div 3] \div 16)
        ELSE LowerHex(d[(j + 1) \div 3] % 16)]

RefHex4(v) ==
    <<LowerHex(v \div 4096), LowerHex((v \div 256) % 16),
      LowerHex((v \div 16) % 16), LowerHex(v % 16)>>

RefSidebarChar(b) == IF b \in 32..126 THEN b ELSE 46

\* A line for a chunk c of 1..16 bytes at a 16-bit address v: 54 + Len(c) bytes.
RefLine(v, c) ==
    [j \in 1..(54 + Len(c)) |->
        IF j <= 4 THEN RefHex4(v)[j]
        ELSE IF j = 5 THEN 32
        ELSE IF j <= 5 + 3 * Len(c) - 1 THEN RefBare(c)[j - 5]
        ELSE IF j <= 53 THEN 32
        ELSE IF j <= 53 + Len(c) THEN RefSidebarChar(c[j - 53])
        ELSE 10]

NumLines(n) == (n + 15) \div 16

RefChunk(d, k) == SubSeq(d, 16 * k + 1, Min(16 * k + 16, Len(d)))

\* Low 16 bits of (off + 16 * k) mod 2^32.
RefLow16(off, k) == (off.lo + 16 * k) % 65536

RECURSIVE RefLines(_, _, _)
RefLines(off, d, k) ==
    IF k >= NumLines(Len(d)) THEN <<>>
    ELSE RefLine(RefLow16(off, k), RefChunk(d, k)) \o RefLines(off, d, k + 1)

RefFormatted(off, d) == RefLines(off, d, 0)

(***************************************************************************)
(* Inputs.                                                                 *)
(***************************************************************************)
\* Bytes at and around the edges of the printable range, a newline, 0xab, 0xff.
Pool == <<0, 10, 31, 32, 65, 126, 127, 171, 255>>

Pattern(n, s) == [j \in 1..n |-> Pool[((j - 1 + s) % Len(Pool)) + 1]]

\* b"baadfood\xba\xad\xf0\x0dASDFasdf;lkj." of the documentation examples
DocData ==
    <<98, 97, 97, 100, 102, 111, 111, 100, 186, 173, 240, 13, 65, 83, 68, 70,
      97, 115, 100, 102, 59, 108, 107, 106, 46>>

\* [0x12, 0x34, 0x56, 0x78, 0xab, 0xcd, 0xef, 0xa0, 0x0b] of tests::test_bare_dump
TestData == <<18, 52, 86, 120, 171, 205, 239, 160, 11>>

\* b"Hello, World!" of tests::test_bare_dump
Hello == <<72, 101, 108, 108, 111, 44, 32, 87, 111, 114, 108, 100, 33>>

\* 0x1000, 0x1fff8, 0xffffffff
AppendOffsets == {U32(0, 4096), U32(1, 65528), U32(65535, 65535)}

\* ... and 0, 0xfffffff0, 0xffffffef
DumpOffsets ==
    AppendOffsets \cup {U32(0, 0), U32(65535, 65520), U32(65535, 65519)}

AppendData ==
    {Pattern(n, 0) :
        n \in (0..MaxShort) \cup {ChunkSize - 1, ChunkSize, ChunkSize + 1}}

DumpData ==
    {Pattern(n, s) : n \in 0..MaxLen, s \in 0..MaxSeed}
        \cup {<<b>> : b \in 0..255}
        \cup {<<Pool[i], Pool[j]>> : i, j \in 1..Len(Pool)}
        \cup {DocData, Hello, TestData}

Targets == {<<>>, Hello}

(***************************************************************************)
(* The calls.                                                              *)
(***************************************************************************)
LastCall == IF history = <<>> THEN "none" ELSE history[Len(history)]

InitWith(t) ==
    /\ target = t
    /\ data = <<>>
    /\ offset = U32(0, 0)
    /\ line_offset = U32(0, 0)
    /\ pos = 0
    /\ chunk = <<>>
    /\ pc = "ready"
    /\ overflow_checks \in BOOLEAN
    /\ history = <<>>
    /\ pre = t
    /\ init = t
    /\ dumps = <<>>

\* A caller holds a buffer, empty or not, and appends dumps to it.
Init == \E t \in Targets : InitWith(t)

\* write_bare_dump_to_vec(&d, &mut target), called by the user.
CallWriteBare(d) ==
    /\ pc = "ready"
    /\ Len(history) < MaxCalls
    /\ target' = write_bare_dump_to_vec(d, target)
    /\ data' = d
    /\ pre' = target
    /\ history' = Append(history, "write_bare_dump_to_vec")
    /\ dumps' = dumps \o RefBare(d)
    /\ UNCHANGED <<offset, line_offset, pos, chunk, pc, overflow_checks, init>>

\* Entry of write_formatted_dump_to_vec(off, &d, &mut target): line 81.
CallWriteFormatted(off, d) ==
    /\ pc = "ready"
    /\ Len(history) < MaxCalls
    /\ pc' = "chunks"
    /\ data' = d
    /\ offset' = off
    /\ line_offset' = off
    /\ pos' = 0
    /\ chunk' = <<>>
    /\ pre' = target
    /\ history' = Append(history, "write_formatted_dump_to_vec")
    /\ dumps' = dumps \o RefFormatted(off, d)
    /\ UNCHANGED <<target, overflow_checks, init>>

\* One iteration of `for chunk in data.chunks(16)`: lines 83-113.  The addition
\* of line 112 panics on overflow when the build checks overflow, else wraps.
FormatChunk ==
    /\ pc = "chunks"
    /\ HasChunk(data, pos)
    /\ LET c == NextChunk(data, pos) IN
        /\ chunk' = c
        /\ target' = WriteLine(line_offset, c, target)
        /\ pos' = pos + Len(c)
    /\ IF AddOverflows(line_offset) /\ overflow_checks
       THEN pc' = "panicked" /\ line_offset' = line_offset
       ELSE pc' = "chunks" /\ line_offset' = AddWrapped(line_offset)
    /\ UNCHANGED <<data, offset, overflow_checks, history, pre, init, dumps>>

\* The loop is exhausted and write_formatted_dump_to_vec returns.
FormatReturn ==
    /\ pc = "chunks"
    /\ ~HasChunk(data, pos)
    /\ pc' = "ready"
    /\ line_offset' = U32(0, 0)
    /\ pos' = 0
    /\ chunk' = <<>>
    /\ UNCHANGED <<target, data, offset, overflow_checks, history, pre, init, dumps>>

Next ==
    \/ \E d \in AppendData : CallWriteBare(d)
    \/ \E off \in AppendOffsets, d \in AppendData : CallWriteFormatted(off, d)
    \/ FormatChunk
    \/ FormatReturn

Spec == Init /\ [][Next]_vars

(***************************************************************************)
(* The calls that build a new buffer: bare_dump and formatted_dump are     *)
(* functions of their arguments alone, so a behaviour is one call on       *)
(* arguments drawn by the initial state.                                   *)
(***************************************************************************)
InitDump ==
    /\ target = <<>>
    /\ data \in DumpData
    /\ offset \in DumpOffsets
    /\ line_offset = U32(0, 0)
    /\ pos = 0
    /\ chunk = <<>>
    /\ pc = "input"
    /\ overflow_checks \in BOOLEAN
    /\ history = <<>>
    /\ pre = <<>>
    /\ init = <<>>
    /\ dumps = <<>>

\* bare_dump(&data): a fresh Vec, write_bare_dump_to_vec on it, returned.
CallBareDump ==
    /\ pc = "input"
    /\ target' = write_bare_dump_to_vec(data, <<>>)
    /\ pc' = "ready"
    /\ history' = Append(history, "bare_dump")
    /\ UNCHANGED <<data, offset, line_offset, pos, chunk, overflow_checks,
                   pre, init, dumps>>

\* formatted_dump(offset, &data): a fresh Vec, then the body of
\* write_formatted_dump_to_vec on it.
CallFormattedDump ==
    /\ pc = "input"
    /\ target' = <<>>
    /\ pc' = "chunks"
    /\ line_offset' = offset
    /\ pos' = 0
    /\ chunk' = <<>>
    /\ history' = Append(history, "formatted_dump")
    /\ UNCHANGED <<data, offset, overflow_checks, pre, init, dumps>>

NextDump ==
    \/ CallBareDump
    \/ CallFormattedDump
    \/ FormatChunk
    \/ FormatReturn

SpecDump == InitDump /\ [][NextDump]_vars

(***************************************************************************)
(* Expected outputs quoted from the documentation and the tests.           *)
(***************************************************************************)
\* "12 34 56 78 ab cd ef a0 0b"
TestDataDump ==
    <<49, 50, 32, 51, 52, 32, 53, 54, 32, 55, 56, 32, 97, 98, 32, 99,
      100, 32, 101, 102, 32, 97, 48, 32, 48, 98>>

\* "48 65 6c 6c 6f 2c 20 57 6f 72 6c 64 21"
HelloDump ==
    <<52, 56, 32, 54, 53, 32, 54, 99, 32, 54, 99, 32, 54, 102, 32, 50,
      99, 32, 50, 48, 32, 53, 55, 32, 54, 102, 32, 55, 50, 32, 54, 99,
      32, 54, 52, 32, 50, 49>>

\* The two lines of the documentation example at offset 0x1000.
DocDump ==
    <<49, 48, 48, 48, 32, 54, 50, 32, 54, 49, 32, 54, 49, 32, 54, 52,
      32, 54, 54, 32, 54, 102, 32, 54, 102, 32, 54, 52, 32, 98, 97, 32,
      97, 100, 32, 102, 48, 32, 48, 100, 32, 52, 49, 32, 53, 51, 32, 52,
      52, 32, 52, 54, 32, 98, 97, 97, 100, 102, 111, 111, 100, 46, 46, 46,
      46, 65, 83, 68, 70, 10, 49, 48, 49, 48, 32, 54, 49, 32, 55, 51,
      32, 54, 52, 32, 54, 54, 32, 51, 98, 32, 54, 99, 32, 54, 98, 32,
      54, 97, 32, 50, 101, 32, 32, 32, 32, 32, 32, 32, 32, 32, 32, 32,
      32, 32, 32, 32, 32, 32, 32, 32, 32, 32, 32, 97, 115, 100, 102, 59,
      108, 107, 106, 46, 10>>

(***************************************************************************)
(* Reading an output back: lines, tokens, an independent hex decoder.      *)
(***************************************************************************)
\* Index of the first b in t at or after index i; Len(t) + 1 when there is none.
FirstAt(t, b, i) ==
    LET hits == {j \in i..Len(t) : t[j] = b} IN
    IF hits = {} THEN Len(t) + 1
    ELSE CHOOSE j \in hits : \A h \in hits : j <= h

\* The pieces of t from index i on, between (and without) the separators
\* sep; a separator at the very end leaves an empty last piece.
RECURSIVE SplitOn(_, _, _)
SplitOn(t, sep, i) ==
    LET e == FirstAt(t, sep, i) IN
    IF e > Len(t) THEN <<SubSeq(t, i, Len(t))>>
    ELSE <<SubSeq(t, i, e - 1)>> \o SplitOn(t, sep, e + 1)

\* The lines of t from index i on, each with its terminating newline; text
\* after the last newline is a last line without one.
RECURSIVE LinesFrom(_, _)
LinesFrom(t, i) ==
    LET e == FirstAt(t, 10, i) IN
    IF i > Len(t) THEN <<>>
    ELSE IF e > Len(t) THEN <<SubSeq(t, i, Len(t))>>
    ELSE <<SubSeq(t, i, e)>> \o LinesFrom(t, e + 1)

Lines(t) == LinesFrom(t, 1)

HexVal(c) ==
    IF c \in 48..57 THEN c - 48
    ELSE IF c \in 97..102 THEN c - 87
    ELSE IF c \in 65..70 THEN c - 55
    ELSE -1

Tokens(t) == IF t = <<>> THEN <<>> ELSE SplitOn(t, 32, 1)

HexPairs(t) ==
    LET toks == Tokens(t) IN
    \A k \in 1..Len(toks) :
        /\ Len(toks[k]) = 2
        /\ HexVal(toks[k][1]) >= 0
        /\ HexVal(toks[k][2]) >= 0

Decode(t) ==
    LET toks == Tokens(t) IN
    [k \in 1..Len(toks) |-> 16 * HexVal(toks[k][1]) + HexVal(toks[k][2])]

CountOf(t, b) == Cardinality({j \in 1..Len(t) : t[j] = b})

CeilDiv16(n) == IF n % 16 = 0 THEN n \div 16 ELSE (n \div 16) + 1

IsPrefix(p, t) == Len(p) <= Len(t) /\ SubSeq(t, 1, Len(p)) = p

BareReturned == pc = "ready" /\ LastCall = "bare_dump"
FormattedRunning == LastCall = "formatted_dump"
FormattedReturned == pc = "ready" /\ LastCall = "formatted_dump"
WriteBareReturned == pc = "ready" /\ LastCall = "write_bare_dump_to_vec"
WriteFormattedRunning == LastCall = "write_formatted_dump_to_vec"
WriteFormattedReturned == pc = "ready" /\ LastCall = "write_formatted_dump_to_vec"

(***************************************************************************)
(* C1: write_bare_dump_to_vec with empty data leaves target as it was,     *)
(* whatever target held.                                                   *)
(***************************************************************************)
C1_EmptyDataIsNoOp ==
    (WriteBareReturned /\ data = <<>>) => target = pre

(***************************************************************************)
(* C2: write_bare_dump_to_vec keeps what target held and appends the bare  *)
(* dump of data: target = P ++ bare_dump(data).                            *)
(***************************************************************************)
C2_AppendsBareDump ==
    WriteBareReturned => target = pre \o RefBare(data)

(***************************************************************************)
(* C3: bare_dump(d) is the reference rendering: two lowercase hex digits   *)
(* per byte, high nibble first, pairs joined by one space, no leading or   *)
(* trailing space; 3n - 1 bytes for n > 0 bytes of data and none for       *)
(* n = 0; exactly n - 1 spaces.                                            *)
(***************************************************************************)
C3_BareDumpIsReference ==
    BareReturned =>
        /\ target = RefBare(data)
        /\ Len(target) = (IF Len(data) > 0 THEN 3 * Len(data) - 1 ELSE 0)
        /\ Len(data) > 0 =>
            /\ CountOf(target, 32) = Len(data) - 1
            /\ target[1] # 32
            /\ target[Len(target)] # 32

C3_Witness ==
    /\ BareReturned
    /\ data = <<18, 52, 86, 120, 171, 205, 239, 160, 11>>
    /\ target = TestDataDump

(***************************************************************************)
(* C4: splitting bare_dump(d) on its spaces gives two-digit hex pairs that *)
(* an independent decoder turns back into d.                               *)
(***************************************************************************)
C4_BareDumpRoundTrip ==
    BareReturned => (HexPairs(target) /\ Decode(target) = data)

C4_Witness ==
    /\ BareReturned
    /\ data = Hello
    /\ target = HelloDump
    /\ Decode(target) = Hello

(***************************************************************************)
(* C5: write_formatted_dump_to_vec never panics, for any offset and data.  *)
(***************************************************************************)
C5_NeverPanics == pc # "panicked"

(***************************************************************************)
(* C6: line k (k = 0, 1, ...) of a formatted dump begins with the four     *)
(* lowercase hex digits, most significant first, of the low 16 bits of     *)
(* (offset + 16 * k) mod 2^32, then one space.                             *)
(***************************************************************************)
C6_OffsetPrefix ==
    FormattedRunning =>
        LET ls == Lines(target) IN
        \A k \in 1..Len(ls) :
            LET line == ls[k] IN
            /\ Len(line) >= 5
            /\ SubSeq(line, 1, 4) = RefHex4(RefLow16(offset, k - 1))
            /\ line[5] = 32

\* offset 0xffffffff with one byte of data renders the prefix "ffff".
C6_Witness ==
    /\ FormattedReturned
    /\ offset = U32(65535, 65535)
    /\ Len(data) = 1
    /\ SubSeq(target, 1, 5) = <<102, 102, 102, 102, 32>>

(***************************************************************************)
(* C7: a formatted dump of n bytes has ceil(n / 16) lines, each ending in  *)
(* its only newline; a line of a full 16-byte chunk is 70 bytes long with  *)
(* the newline; empty data gives an empty output.  While the dump is being *)
(* written the same holds of the n bytes consumed so far.                  *)
(***************************************************************************)
C7_LineCount ==
    FormattedRunning =>
        LET ls == Lines(target)
            n  == IF pc = "ready" THEN Len(data) ELSE pos
        IN
        /\ Len(ls) = CeilDiv16(n)
        /\ CountOf(target, 10) = CeilDiv16(n)
        /\ \A k \in 1..Len(ls) :
            LET line == ls[k] IN
            /\ line[Len(line)] = 10
            /\ k <= n \div 16 => Len(line) = 70
        /\ Len(data) = 0 => target = <<>>

C7_Witness ==
    /\ FormattedReturned
    /\ Len(data) = 33
    /\ Len(Lines(target)) = 3
    /\ Len(target) = 70 + 70 + 55

(***************************************************************************)
(* C8: in the line of a chunk of c bytes, 3 * (16 - c) padding spaces and  *)
(* one separator space follow the hex body, the sidebar starts at index 53 *)
(* of the line, and the line is 54 + c bytes long with the newline.        *)
(***************************************************************************)
C8_SidebarColumn ==
    FormattedRunning =>
        LET ls == Lines(target) IN
        \A k \in 1..Len(ls) :
            LET line == ls[k]
                c == Len(RefChunk(data, k - 1))
            IN
            /\ c \in 1..16
            /\ Len(line) = 54 + c
            /\ line[5 + 3 * c - 1] # 32
            /\ \A j \in (5 + 3 * c)..53 : line[j] = 32

C8_Witness ==
    /\ FormattedReturned
    /\ data = DocData
    /\ offset = U32(0, 4096)
    /\ target = DocDump

(***************************************************************************)
(* C9: the sidebar of a line has one character per byte of the chunk: the  *)
(* byte itself when it is in 0x20..0x7e, and '.' otherwise.                *)
(***************************************************************************)
C9_SidebarMapping ==
    FormattedRunning =>
        LET ls == Lines(target) IN
        \A k \in 1..Len(ls) :
            LET line == ls[k]
                c == RefChunk(data, k - 1)
            IN
            /\ Len(line) = 53 + Len(c) + 1
            /\ \A j \in 1..Len(c) :
                line[53 + j] = (IF c[j] >= 32 /\ c[j] <= 126 THEN c[j] ELSE 46)

\* 0x00 0x0a 0x1f 0x20 'A' '~' 0x7f 0xab 0xff  ->  "... A~..."
C9_Witness ==
    /\ FormattedReturned
    /\ data = <<0, 10, 31, 32, 65, 126, 127, 171, 255>>
    /\ SubSeq(target, 54, 62) = <<46, 46, 46, 32, 65, 126, 46, 46, 46>>

(***************************************************************************)
(* C10: write_formatted_dump_to_vec keeps what target held and only        *)
(* appends: afterwards target = P ++ formatted_dump(offset, data); each    *)
(* chunk it passes to write_bare_dump_to_vec is non-empty; and after a     *)
(* sequence of such calls the buffer is the concatenation of the dumps.    *)
(***************************************************************************)
OnlyFormattedCalls ==
    \A k \in 1..Len(history) : history[k] = "write_formatted_dump_to_vec"

C10_FormattedOnlyAppends ==
    WriteFormattedRunning =>
        /\ IsPrefix(pre, target)
        /\ (pc # "ready" /\ target # pre) => chunk # <<>>
        /\ pc = "ready" => target = pre \o RefFormatted(offset, data)
        /\ (pc = "ready" /\ OnlyFormattedCalls) => target = init \o dumps

C10_Witness ==
    /\ WriteFormattedReturned
    /\ Len(history) = 2
    /\ OnlyFormattedCalls
    /\ init = Hello
    /\ Len(data) = 17
    /\ Len(pre) > Len(init)
    /\ target = pre \o RefFormatted(offset, data)
    /\ Len(target) = Len(pre) + 70 + 55

====
